---------------------------- MODULE Spec2Model ----------------------------
(***************************************************************************)
(* Model of the adv2025 puzzle solvers: the Day 1 dial simulator (typed    *)
(* Dial/Rotation/Counter formulation and the legacy dial formulation), the *)
(* Day 1 file parsers and solvers, and the Day 4 iterative grid reducer.   *)
(***************************************************************************)
EXTENDS Integers, Sequences, FiniteSets, TLC

VARIABLES
    \* Dial (counter.go): the three fields of the struct, plus history
    position, count, counter,
    op, lastRot, clicks, nrot,
    \* Pipeline.Reduce over the rotations the dial is given: its locals
    \* position and count
    rposition, rcount,
    \* pure-function harness: inputs and the results of one evaluation
    fin, fout,
    \* line parsers: one line of text and the outcome of parsing it
    pin, pout,
    \* Day 1 solve of one input file
    file, impl, part, lineNum, spc, lposition, lcount, result, err, applied,
    \* history: the rotations applied after which the dial of the solve read 0
    landings,
    \* history: how many times the file was solved before, and what the solve
    \* before this one returned
    runs, prevResult, prevErr,
    \* Day 4 Part2 reducer
    grid, accessible, row, col, gpc, totalRemoved,
    grid0, passStart, prevGrid, passes, lastBatch,
    \* Day 4 Part1 on the same grid: the cursor of its loops and its count
    part1Row, part1Col, part1Count,
    \* history: how many times Part2 was run again on the grid it left, and
    \* what the run before this one returned
    reruns, prevRemoved,
    \* the grid of the same input with removable markers taken out one at a
    \* time, and how many were taken out
    oneByOne, oneRemoved,
    \* dispatcher (cmd/main.go): the flags, the file system it finds, its
    \* locals, its position and the lines it has printed
    dayFlag, partFlag, existingPaths, existingInputs,
    inputDir, toRun, next, dpc, output

reduceVars == <<rposition, rcount>>
dialVars  == <<position, count, counter, op, lastRot, clicks, nrot, reduceVars>>
fnVars    == <<fin, fout>>
parseVars == <<pin, pout>>
solveVars == <<file, impl, part, lineNum, spc, lposition, lcount, result, err, applied,
               landings, runs, prevResult, prevErr>>
part1Vars == <<part1Row, part1Col, part1Count>>
orderVars == <<oneByOne, oneRemoved>>
gridVars  == <<grid, accessible, row, col, gpc, totalRemoved,
               grid0, passStart, prevGrid, passes, lastBatch,
               part1Vars, reruns, prevRemoved, orderVars>>
dispVars  == <<dayFlag, partFlag, existingPaths, existingInputs,
               inputDir, toRun, next, dpc, output>>
vars      == <<dialVars, fnVars, parseVars, solveVars, gridVars, dispVars>>

-----------------------------------------------------------------------------
(* Program constants *)

\* the dial has 100 positions: `% 100` in Position.Normalize
DialSize == 100
\* NewDial / newDial / Reset start the dial at 50
StartPosition == 50
\* a roll is accessible with fewer than 4 adjacent rolls
Threshold == 4

(* Bounds of the model *)

\* Dial.Rotate is called at most this many times on one dial
MaxRotations == 3
\* single-click distances -MaxSmall..MaxSmall are fed to the dial
MaxSmall == 2
\* half-turn distances k*50, k in -MaxHalfTurns..MaxHalfTurns, are fed to the dial
MaxHalfTurns == 5
\* the function harness evaluates distances -MaxNegDistance..MaxEquivDistance
MaxEquivDistance == 500
MaxNegDistance == 200
\* the line parsers are evaluated on every line of at most MaxLineLen characters
MaxLineLen == 3
\* a file that has been solved is solved again at most MaxSolveAgain times
MaxSolveAgain == 1
\* an input file of the dial solvers has at most MaxLines lines
MaxLines == 3
\* the -day and -part flags of the dispatcher are drawn from 0..MaxFlag
MaxFlag == 3
\* on inputs of which Part2 removed at most MaxExtra markers, every set of
\* removed markers is tried as an addition to the markers Part2 left
MaxExtra == 7
\* Part2 is run again on the grid it left at most MaxReruns times
MaxReruns == 1
\* ragged grids have at most MaxRows rows of 1..MaxCols cells
MaxRows == 2
MaxCols == 3
\* square grids of side 1..DenseSide with at most MaxHoles empty cells
DenseSide == 4
MaxHoles == 1

Range(seq) == { seq[i] : i \in 1 .. Len(seq) }

-----------------------------------------------------------------------------
(* Go integer arithmetic: / and % truncate toward zero *)

GoDiv(a, b) == IF a >= 0 THEN a \div b ELSE -((-a) \div b)

GoRem(a, b) == a - b * GoDiv(a, b)

-----------------------------------------------------------------------------
(* types.go: Position, Direction, Rotation *)

Left  == "L"
Right == "R"

\* Normalize without the sign correction: Go's % alone
NormalizeNoFix(p) == GoRem(p, DialSize)

Normalize(p) ==
    LET pos == GoRem(p, DialSize)
    IN  IF pos < 0 THEN pos + DialSize ELSE pos

IsZero(p) == p = 0

\* Apply with Go's % alone in place of Normalize
ApplyTruncating(r, p) ==
    CASE r.Direction = Left  -> GoRem(p - r.Distance, DialSize)
      [] r.Direction = Right -> GoRem(p + r.Distance, DialSize)
      [] OTHER               -> p

Apply(r, p) ==
    CASE r.Direction = Left  -> Normalize(p - r.Distance)
      [] r.Direction = Right -> Normalize(p + r.Distance)
      [] OTHER               -> p

\* CountZeroCrossings without the special case of a dial standing on 0
CountZeroCrossingsNoZeroCase(r, from) ==
    CASE r.Direction = Left ->
            IF r.Distance >= from
            THEN 1 + GoDiv(r.Distance - from, DialSize)
            ELSE 0
      [] r.Direction = Right -> GoDiv(from + r.Distance, DialSize)
      [] OTHER -> 0

\* CountZeroCrossings with > in place of >= on the way left: a stop on 0
\* coming from the right is not counted
CountZeroCrossingsMissLanding(r, from) ==
    CASE r.Direction = Left ->
            IF IsZero(from)
            THEN GoDiv(r.Distance, DialSize)
            ELSE IF r.Distance > from
                 THEN 1 + GoDiv(r.Distance - from, DialSize)
                 ELSE 0
      [] r.Direction = Right -> GoDiv(from + r.Distance, DialSize)
      [] OTHER -> 0

CountZeroCrossings(r, from) ==
    CASE r.Direction = Left ->
            IF IsZero(from)
            THEN GoDiv(r.Distance, DialSize)
            ELSE IF r.Distance >= from
                 THEN 1 + GoDiv(r.Distance - from, DialSize)
                 ELSE 0
      [] r.Direction = Right -> GoDiv(from + r.Distance, DialSize)
      [] OTHER -> 0

-----------------------------------------------------------------------------
(* counter.go: the two counting strategies *)

EndPositionCounter  == "EndPositionCounter"
ZeroCrossingCounter == "ZeroCrossingCounter"
Counters == {EndPositionCounter, ZeroCrossingCounter}

\* EndPositionCounter.Count testing the position the dial is at, not the one
\* the rotation leads to
EndPositionCountStale(r, p) == IF IsZero(p) THEN 1 ELSE 0

EndPositionCount(r, p) == IF IsZero(Apply(r, p)) THEN 1 ELSE 0

ZeroCrossingCount(r, p) == CountZeroCrossings(r, p)

CounterCount(c, r, p) ==
    IF c = EndPositionCounter THEN EndPositionCount(r, p) ELSE ZeroCrossingCount(r, p)

-----------------------------------------------------------------------------
(* legacy dial (dial.go): mod, rotate, countPassesThroughZero *)

mod(n, m) ==
    LET res == GoRem(n, m)
    IN  IF res < 0 THEN res + m ELSE res

rotate(pos, direction, distance) ==
    CASE direction = "L" -> mod(pos - distance, DialSize)
      [] direction = "R" -> mod(pos + distance, DialSize)
      [] OTHER           -> pos

\* countPassesThroughZero without the special case of a dial standing on 0
countPassesNoZeroCase(pos, direction, distance) ==
    CASE direction = "L" ->
            IF distance >= pos
            THEN 1 + GoDiv(distance - pos, DialSize)
            ELSE 0
      [] direction = "R" -> GoDiv(pos + distance, DialSize)
      [] OTHER -> 0

countPassesThroughZero(pos, direction, distance) ==
    CASE direction = "L" ->
            IF pos = 0
            THEN GoDiv(distance, DialSize)
            ELSE IF distance >= pos
                 THEN 1 + GoDiv(distance - pos, DialSize)
                 ELSE 0
      [] direction = "R" -> GoDiv(pos + distance, DialSize)
      [] OTHER -> 0

-----------------------------------------------------------------------------
(* The dial moved one click at a time: the reading of "crossing" that the   *)
(* counts are compared with.                                                *)

\* what the dial reads k single clicks after p, on a circle of DialSize marks
Reading(p, dir, k) ==
    IF dir = Left THEN (p - k) % DialSize ELSE (p + k) % DialSize

\* number of k in 1..d after which the dial reads 0, clicking d times from p
ClicksOnZero(p, dir, d) ==
    Cardinality({k \in 1 .. d : Reading(p, dir, k) = 0})

-----------------------------------------------------------------------------
(* counter.go: Dial *)

NoRotation == [Direction |-> Right, Distance |-> 0]

NewDial(c) ==
    /\ position = StartPosition
    /\ counter = c
    /\ count = 0

\* a Rotate that updates the position first and counts against the new position
RotateStale(r) ==
    /\ position' = Apply(r, position)
    /\ count' = count + CounterCount(counter, r, position')
    /\ UNCHANGED counter

Rotate(r) ==
    /\ count' = count + CounterCount(counter, r, position)
    /\ position' = Apply(r, position)
    /\ UNCHANGED counter

\* Reset that puts the position back and forgets to clear the count
ResetKeepCount ==
    /\ position' = StartPosition
    /\ UNCHANGED <<count, counter>>

Reset ==
    /\ position' = StartPosition
    /\ count' = 0
    /\ UNCHANGED counter

\* the rotations fed to the dial: distances as strconv.Atoi yields them for
\* tokens such as "R2", "L150", "R-150"
Distances ==
    (-MaxSmall .. MaxSmall) \cup {StartPosition * k : k \in -MaxHalfTurns .. MaxHalfTurns}

Rotations == [Direction : {Left, Right}, Distance : Distances]

\* solution.go: Pipeline.Reduce, lines 57-58: the locals on entry
ReduceEnter(initial) ==
    /\ rposition = initial
    /\ rcount = 0

\* an iteration of Reduce that moves the position before it counts
ReduceStepStale(c, r) ==
    /\ rposition' = Apply(r, rposition)
    /\ rcount' = rcount + CounterCount(c, r, rposition')

\* Pipeline.Reduce, lines 60-63: one iteration of the loop, on rotation r
ReduceStep(c, r) ==
    /\ rcount' = rcount + CounterCount(c, r, rposition)
    /\ rposition' = Apply(r, rposition)

DialHistoryInit ==
    /\ op = "new"
    /\ lastRot = NoRotation
    /\ clicks = 0
    /\ nrot = 0
    /\ ReduceEnter(StartPosition)

DialInit ==
    /\ \E c \in Counters : NewDial(c)
    /\ DialHistoryInit

DialIdle ==
    /\ NewDial(EndPositionCounter)
    /\ DialHistoryInit

\* the dial is given rotation r, and r is the next element of the slice that
\* Reduce ranges over
DialRotate ==
    /\ nrot < MaxRotations
    /\ \E r \in Rotations :
          /\ Rotate(r)
          /\ ReduceStep(counter, r)
          /\ lastRot' = r
          /\ clicks' = clicks + ClicksOnZero(position, r.Direction, r.Distance)
    /\ op' = "rotate"
    /\ nrot' = nrot + 1

\* the dial is reset; Reduce is called anew, on the rotations that follow
DialReset ==
    /\ Reset
    /\ op' = "reset"
    /\ clicks' = 0
    /\ rposition' = StartPosition
    /\ rcount' = 0
    /\ UNCHANGED <<lastRot, nrot>>

\* Dial.Position() and Dial.Count(): return a field, assign nothing
DialRead ==
    /\ op' = "read"
    /\ UNCHANGED <<position, count, counter, lastRot, clicks, nrot, reduceVars>>

-----------------------------------------------------------------------------
(* Pure-function harness: one evaluation of the dial arithmetic on an input *)

NoOutput ==
    [crossings |-> 0, passes |-> 0, applied |-> 0, rotated |-> 0, ends |-> 0,
     leftRight |-> 0, rightLeft |-> 0, done |-> FALSE]

FnInputs ==
    [p : 0 .. DialSize - 1, dir : {Left, Right},
     d : -MaxNegDistance .. MaxEquivDistance]

FnIdle ==
    /\ fin = [p |-> 0, dir |-> Left, d |-> 0]
    /\ fout = NoOutput

FnInit ==
    /\ fin \in FnInputs
    /\ fout = NoOutput

Evaluate ==
    /\ ~fout.done
    /\ LET r == [Direction |-> fin.dir, Distance |-> fin.d]
       IN  fout' = [crossings |-> CountZeroCrossings(r, fin.p),
                    passes    |-> countPassesThroughZero(fin.p, fin.dir, fin.d),
                    applied   |-> Apply(r, fin.p),
                    rotated   |-> rotate(fin.p, fin.dir, fin.d),
                    ends      |-> EndPositionCount(r, fin.p),
                    leftRight |-> Apply([Direction |-> Right, Distance |-> fin.d],
                                     Apply([Direction |-> Left, Distance |-> fin.d], fin.p)),
                    rightLeft |-> Apply([Direction |-> Left, Distance |-> fin.d],
                                     Apply([Direction |-> Right, Distance |-> fin.d], fin.p)),
                    done      |-> TRUE]
    /\ UNCHANGED fin

-----------------------------------------------------------------------------
(* Text: a line is a sequence of one-character strings *)

Digits == {"0", "1", "2", "3", "4", "5", "6", "7", "8", "9"}

DigitVal(c) ==
    CASE c = "0" -> 0 [] c = "1" -> 1 [] c = "2" -> 2 [] c = "3" -> 3 [] c = "4" -> 4
      [] c = "5" -> 5 [] c = "6" -> 6 [] c = "7" -> 7 [] c = "8" -> 8 [] c = "9" -> 9

RECURSIVE TrimLeft(_)
TrimLeft(s) == IF s # <<>> /\ Head(s) = " " THEN TrimLeft(Tail(s)) ELSE s

RECURSIVE TrimRight(_)
TrimRight(s) ==
    IF s # <<>> /\ s[Len(s)] = " " THEN TrimRight(SubSeq(s, 1, Len(s) - 1)) ELSE s

\* strings.TrimSpace
TrimSpace(s) == TrimRight(TrimLeft(s))

RECURSIVE DecimalValue(_)
DecimalValue(s) ==
    IF s = <<>> THEN 0
    ELSE 10 * DecimalValue(SubSeq(s, 1, Len(s) - 1)) + DigitVal(s[Len(s)])

\* strconv.Atoi: an optional sign, then one or more decimal digits
Atoi(s) ==
    LET signed == s # <<>> /\ Head(s) \in {"+", "-"}
        body   == IF signed THEN Tail(s) ELSE s
    IN  IF body = <<>> \/ \E i \in 1 .. Len(body) : body[i] \notin Digits
        THEN [ok |-> FALSE, val |-> 0]
        ELSE [ok |-> TRUE,
              val |-> IF signed /\ Head(s) = "-"
                      THEN -DecimalValue(body) ELSE DecimalValue(body)]

-----------------------------------------------------------------------------
(* types.go: ParseRotation *)

ParseRotation(str) ==
    LET s == TrimSpace(str)
    IN  IF Len(s) < 2
        THEN [ok |-> FALSE, rot |-> NoRotation, msg |-> "invalid rotation: too short"]
        ELSE IF s[1] # Left /\ s[1] # Right
        THEN [ok |-> FALSE, rot |-> NoRotation, msg |-> "invalid direction"]
        ELSE LET n == Atoi(Tail(s))
             IN  IF ~n.ok
                 THEN [ok |-> FALSE, rot |-> NoRotation, msg |-> "invalid distance"]
                 ELSE [ok |-> TRUE,
                       rot |-> [Direction |-> s[1], Distance |-> n.val],
                       msg |-> ""]

-----------------------------------------------------------------------------
(* dial.go: the body of the loop of parseRotations for one line of the file *)

parseRotationsLine(text) ==
    LET line == TrimSpace(text)
        n    == Atoi(Tail(line))
    IN  IF line = <<>>
        THEN [skip |-> TRUE, ok |-> TRUE, rot |-> NoRotation, msg |-> ""]
        ELSE IF ~n.ok
        THEN [skip |-> FALSE, ok |-> FALSE, rot |-> NoRotation, msg |-> "invalid rotation"]
        ELSE IF line[1] # "L" /\ line[1] # "R"
        THEN [skip |-> FALSE, ok |-> FALSE, rot |-> NoRotation, msg |-> "invalid direction"]
        ELSE [skip |-> FALSE, ok |-> TRUE,
              rot |-> [Direction |-> line[1], Distance |-> n.val], msg |-> ""]

-----------------------------------------------------------------------------
(* Line-parser harness: one evaluation of both line parsers on one line *)

\* the characters lines are made of: both directions, a letter that is no
\* direction, two digits, both signs and the space
LineAlphabet == {"L", "R", "X", "0", "5", "-", "+", " "}

Lines == UNION { [1 .. n -> LineAlphabet] : n \in 0 .. MaxLineLen }

NotParsed == [done |-> FALSE, ok |-> FALSE, distance |-> 0,
              legacyOk |-> FALSE, legacyDistance |-> 0]

ParseIdle ==
    /\ pin = <<>>
    /\ pout = NotParsed

ParseInit ==
    /\ pin \in Lines
    /\ pout = NotParsed

\* ParseRotation(line) as RotationParser.Parse calls it, and the loop body of
\* parseRotations, on the same line
ParseLine ==
    /\ ~pout.done
    /\ LET pr == ParseRotation(pin)
           lg == parseRotationsLine(pin)
       IN  pout' = [done |-> TRUE, ok |-> pr.ok, distance |-> pr.rot.Distance,
                    legacyOk |-> lg.ok /\ ~lg.skip,
                    legacyDistance |-> lg.rot.Distance]
    /\ UNCHANGED pin

-----------------------------------------------------------------------------
(* Errors: the message, the wrappers added around it, and the line number   *)
(* the text of the error names, if it names one                             *)

NoError == [msg |-> "", wrap |-> "", hasLine |-> FALSE, line |-> 0]

\* fmt.Errorf("line %d: %w", lineNum, err)
LineError(n, m) == [msg |-> m, wrap |-> "", hasLine |-> TRUE, line |-> n]

\* fmt.Errorf("invalid rotation: %s", line), fmt.Errorf("invalid direction: %c", direction)
PlainError(m) == [msg |-> m, wrap |-> "", hasLine |-> FALSE, line |-> 0]

\* fmt.Errorf("solving: %w", err)
Wrapped(w, e) == [e EXCEPT !.wrap = w]

-----------------------------------------------------------------------------
(* Day 1: one solve of one input file, by the Solver (solution.go, with     *)
(* parser.go) or by the legacy Part1/Part2 (with dial.go's parseRotations)  *)

\* the lines an input file is made of: "", " ", "R50", "L50", "L151",
\* "R200", "X10", "R-150", "L"
FileLines ==
    { <<>>, <<" ">>,
      <<"R", "5", "0">>, <<"L", "5", "0">>, <<"L", "1", "5", "1">>,
      <<"R", "2", "0", "0">>,
      <<"X", "1", "0">>, <<"R", "-", "1", "5", "0">>, <<"L">> }

Files == UNION { [1 .. n -> FileLines] : n \in 0 .. MaxLines }

\* part1.go, part2.go: the strategy SolveWith is called with
PartCounter(n) == IF n = 1 THEN EndPositionCounter ELSE ZeroCrossingCounter

SolveIdle ==
    /\ file = <<>>
    /\ impl = "solver"
    /\ part = 1
    /\ lineNum = 0
    /\ spc = "run"
    /\ lposition = StartPosition
    /\ lcount = 0
    /\ result = 0
    /\ err = NoError
    /\ applied = 0
    /\ landings = 0
    /\ runs = 0
    /\ prevResult = 0
    /\ prevErr = NoError

\* NewSolver(counter) / newDial(), before the file is read
SolveInit ==
    /\ file \in Files
    /\ impl \in {"solver", "legacy"}
    /\ part \in {1, 2}
    /\ lineNum = 0
    /\ spc = "run"
    /\ NewDial(PartCounter(part))
    /\ DialHistoryInit
    /\ lposition = StartPosition
    /\ lcount = 0
    /\ result = 0
    /\ err = NoError
    /\ applied = 0
    /\ landings = 0
    /\ runs = 0
    /\ prevResult = 0
    /\ prevErr = NoError

\* Solver.Solve: one iteration of the loop of RotationParser.Parse, whose fn
\* is s.dial.Rotate; a failure ends Solve with (0, "solving: line n: ...")
SolverScan ==
    /\ impl = "solver"
    /\ spc = "run"
    /\ lineNum < Len(file)
    /\ lineNum' = lineNum + 1
    /\ LET line == file[lineNum + 1]
           pr   == ParseRotation(line)
       IN  IF line = <<>>
           THEN UNCHANGED <<position, count, counter, spc, result, err, applied,
                            clicks, landings>>
           ELSE IF ~pr.ok
           THEN /\ err' = Wrapped("solving", LineError(lineNum', pr.msg))
                /\ result' = 0
                /\ spc' = "done"
                /\ UNCHANGED <<position, count, counter, applied, clicks, landings>>
           ELSE /\ Rotate(pr.rot)
                /\ clicks' = clicks
                      + ClicksOnZero(position, pr.rot.Direction, pr.rot.Distance)
                /\ applied' = applied + 1
                /\ landings' = IF position' = 0 THEN landings + 1 ELSE landings
                /\ UNCHANGED <<spc, result, err>>
    /\ UNCHANGED <<file, impl, part, lposition, lcount, runs, prevResult, prevErr>>

\* Solver.Solve: the scanner is exhausted, Parse returns nil
SolverReturn ==
    /\ impl = "solver"
    /\ spc = "run"
    /\ lineNum = Len(file)
    /\ result' = count
    /\ err' = NoError
    /\ spc' = "done"
    /\ UNCHANGED <<position, count, counter, file, impl, part, lineNum,
                   lposition, lcount, applied, landings,
                   runs, prevResult, prevErr>>

\* legacy Part1: the handler rotates, then tests the new position
LegacyPart1Handler(direction, distance) ==
    /\ lposition' = rotate(lposition, direction, distance)
    /\ lcount' = IF lposition' = 0 THEN lcount + 1 ELSE lcount

\* legacy Part2: the handler counts against the old position, then rotates
LegacyPart2Handler(direction, distance) ==
    /\ lcount' = lcount + countPassesThroughZero(lposition, direction, distance)
    /\ lposition' = rotate(lposition, direction, distance)

\* legacy Part1/Part2: one iteration of the loop of parseRotations; a failure
\* ends the run with (count, err), the error naming no line
LegacyScan ==
    /\ impl = "legacy"
    /\ spc = "run"
    /\ lineNum < Len(file)
    /\ lineNum' = lineNum + 1
    /\ LET line == TrimSpace(file[lineNum + 1])
           n    == Atoi(Tail(line))
       IN  IF line = <<>>
           THEN UNCHANGED <<lposition, lcount, spc, result, err, applied, landings>>
           ELSE IF ~n.ok
           THEN /\ err' = PlainError("invalid rotation")
                /\ result' = lcount
                /\ spc' = "done"
                /\ UNCHANGED <<lposition, lcount, applied, landings>>
           ELSE IF line[1] # "L" /\ line[1] # "R"
           THEN /\ err' = PlainError("invalid direction")
                /\ result' = lcount
                /\ spc' = "done"
                /\ UNCHANGED <<lposition, lcount, applied, landings>>
           ELSE /\ IF part = 1
                   THEN LegacyPart1Handler(line[1], n.val)
                   ELSE LegacyPart2Handler(line[1], n.val)
                /\ applied' = applied + 1
                /\ landings' = IF lposition' = 0 THEN landings + 1 ELSE landings
                /\ UNCHANGED <<spc, result, err>>
    /\ UNCHANGED <<file, impl, part, position, count, counter,
                   runs, prevResult, prevErr>>

\* legacy Part1/Part2: scanner.Err() is nil at the end of the file
LegacyReturn ==
    /\ impl = "legacy"
    /\ spc = "run"
    /\ lineNum = Len(file)
    /\ result' = lcount
    /\ err' = NoError
    /\ spc' = "done"
    /\ UNCHANGED <<position, count, counter, file, impl, part, lineNum,
                   lposition, lcount, applied, landings,
                   runs, prevResult, prevErr>>

\* Solver.Solve called once more on the Solver that has solved the file: the
\* Solver keeps the dial NewSolver gave it
SolveAgain ==
    /\ impl = "solver"
    /\ spc = "done"
    /\ runs < MaxSolveAgain
    /\ runs' = runs + 1
    /\ prevResult' = result
    /\ prevErr' = err
    /\ lineNum' = 0
    /\ spc' = "run"
    /\ result' = 0
    /\ err' = NoError
    /\ applied' = 0
    /\ UNCHANGED <<position, count, counter, clicks, landings,
                   file, impl, part, lposition, lcount>>

\* Part1 / Part2 called once more on the file: SolveWith makes a new Solver
\* with a new dial, the legacy Part1 / Part2 call newDial()
PartAgain ==
    /\ spc = "done"
    /\ runs < MaxSolveAgain
    /\ runs' = runs + 1
    /\ prevResult' = result
    /\ prevErr' = err
    /\ lineNum' = 0
    /\ spc' = "run"
    /\ result' = 0
    /\ err' = NoError
    /\ applied' = 0
    /\ position' = StartPosition
    /\ count' = 0
    /\ counter' = PartCounter(part)
    /\ lposition' = StartPosition
    /\ lcount' = 0
    /\ clicks' = 0
    /\ landings' = 0
    /\ UNCHANGED <<file, impl, part>>

-----------------------------------------------------------------------------
(* Day 4 Part2: the grid reducer. Rows and columns are numbered from 1.    *)

Marker == "@"
Empty  == "."

\* the grids FromFile hands to Part2: every row is a non-blank line of '@'
\* and '.' characters; rows may differ in length
GridRows == UNION { [1 .. m -> {Marker, Empty}] : m \in 1 .. MaxCols }

RaggedGrids == UNION { [1 .. n -> GridRows] : n \in 0 .. MaxRows }

SquareCells(n) == (1 .. n) \X (1 .. n)

RECURSIVE HoleSets(_, _)
\* the sets of at most k of the given cells
HoleSets(cells, k) ==
    IF k = 0 THEN {{}}
    ELSE LET fewer == HoleSets(cells, k - 1)
         IN  fewer \cup { h \cup {c} : h \in fewer, c \in cells }

DenseGrids ==
    UNION { { [r \in 1 .. n |->
                 [c \in 1 .. n |-> IF <<r, c>> \in holes THEN Empty ELSE Marker]] :
              holes \in HoleSets(SquareCells(n), MaxHoles) } :
            n \in 1 .. DenseSide }

Grids == RaggedGrids \cup DenseGrids

Cells(g) == UNION { { <<r, c>> : c \in 1 .. Len(g[r]) } : r \in 1 .. Len(g) }

directions ==
    << <<-1, -1>>, <<-1, 0>>, <<-1, 1>>,
       <<0, -1>>, <<0, 1>>,
       <<1, -1>>, <<1, 0>>, <<1, 1>> >>

\* isAccessibleMutable with <= in place of <
isAccessibleOffByOne(g, r, c) ==
    Cardinality({ i \in 1 .. Len(directions) :
        LET newRow == r + directions[i][1]
            newCol == c + directions[i][2]
        IN  /\ newRow >= 1 /\ newRow <= Len(g)
            /\ newCol >= 1 /\ newCol <= Len(g[newRow])
            /\ g[newRow][newCol] = Marker }) <= Threshold

\* the bounds check with the column bound taken from the first row, as for a
\* rectangular grid
inBoundsRectangular(g, newRow, newCol) ==
    /\ newRow >= 1 /\ newRow <= Len(g)
    /\ newCol >= 1 /\ newCol <= Len(g[1])

\* isAccessibleMutable, lines 73-74: the bounds check that guards the lookup
inBounds(g, newRow, newCol) ==
    /\ newRow >= 1 /\ newRow <= Len(g)
    /\ newCol >= 1 /\ newCol <= Len(g[newRow])

\* the neighbour positions isAccessibleMutable looks up in the grid
lookups(g, r, c) ==
    { n \in { <<r + directions[i][1], c + directions[i][2]>> : i \in 1 .. Len(directions) } :
        inBounds(g, n[1], n[2]) }

\* grid[newRow][newCol]: an index out of range is a run-time panic
indexOutOfRange(g, n) ==
    ~(n[1] \in 1 .. Len(g) /\ n[2] \in 1 .. Len(g[n[1]]))

lookupPanics(g, r, c) == \E n \in lookups(g, r, c) : indexOutOfRange(g, n)

isAccessibleMutable(g, r, c) ==
    Cardinality({ n \in lookups(g, r, c) :
        ~indexOutOfRange(g, n) /\ g[n[1]][n[2]] = Marker }) < Threshold

\* day4/part1.go: isAccessible, on the grid of strings
isAccessible(g, r, c) ==
    Cardinality({ i \in 1 .. Len(directions) :
        LET newRow == r + directions[i][1]
            newCol == c + directions[i][2]
        IN  /\ newRow >= 1 /\ newRow <= Len(g)
            /\ newCol >= 1 /\ newCol <= Len(g[newRow])
            /\ g[newRow][newCol] = Marker }) < Threshold

\* the clearing loop leaving after its first iteration
ClearFirstOnly(g, batch) ==
    [r \in 1 .. Len(g) |->
        [c \in 1 .. Len(g[r]) |->
            IF Len(batch) > 0 /\ batch[1] = <<r, c>> THEN Empty ELSE g[r][c]]]

\* Part2, lines 29-31: clear every collected cell
ClearAll(g, batch) ==
    [r \in 1 .. Len(g) |->
        [c \in 1 .. Len(g[r]) |->
            IF \E i \in 1 .. Len(batch) : batch[i] = <<r, c>> THEN Empty ELSE g[r][c]]]

\* the cursor of the two nested loops of findAccessibleRolls after cell (r, c)
NextCursor(g, r, c) ==
    IF c + 1 <= Len(g[r]) THEN <<r, c + 1>> ELSE <<r + 1, 1>>

GridIdle ==
    /\ grid = <<>>
    /\ accessible = <<>>
    /\ row = 1
    /\ col = 1
    /\ gpc = "scan"
    /\ totalRemoved = 0
    /\ grid0 = <<>>
    /\ passStart = <<>>
    /\ prevGrid = <<>>
    /\ passes = 0
    /\ lastBatch = <<>>
    /\ part1Row = 1
    /\ part1Col = 1
    /\ part1Count = 0
    /\ reruns = 0
    /\ prevRemoved = 0
    /\ oneByOne = grid
    /\ oneRemoved = 0

\* FromFile has built the grid of an input; Part1 is entered, and Part2 after it
GridInit ==
    /\ grid \in Grids
    /\ accessible = <<>>
    /\ row = 1
    /\ col = 1
    /\ gpc = "part1"
    /\ totalRemoved = 0
    /\ grid0 = grid
    /\ passStart = grid
    /\ prevGrid = grid
    /\ passes = 0
    /\ lastBatch = <<>>
    /\ part1Row = 1
    /\ part1Col = 1
    /\ part1Count = 0
    /\ reruns = 0
    /\ prevRemoved = 0
    /\ oneByOne = grid
    /\ oneRemoved = 0

\* Part1: one iteration of the inner loop, at cell (part1Row, part1Col)
Part1Cell ==
    /\ gpc = "part1"
    /\ part1Row <= Len(grid)
    /\ LET hit == /\ grid[part1Row][part1Col] = Marker
                  /\ isAccessible(grid, part1Row, part1Col)
           nxt == NextCursor(grid, part1Row, part1Col)
       IN  /\ part1Count' = IF hit THEN part1Count + 1 ELSE part1Count
           /\ part1Row' = nxt[1]
           /\ part1Col' = nxt[2]
    /\ UNCHANGED <<grid, accessible, row, col, gpc, totalRemoved,
                   grid0, passStart, prevGrid, passes, lastBatch,
                   reruns, prevRemoved>>

\* Part1 returns its count; Part2 is entered with the grid of the same input
Part1Return ==
    /\ gpc = "part1"
    /\ part1Row > Len(grid)
    /\ gpc' = "scan"
    /\ UNCHANGED <<grid, accessible, row, col, totalRemoved,
                   grid0, passStart, prevGrid, passes, lastBatch,
               part1Vars, reruns, prevRemoved>>

\* a scan that clears an accessible cell as soon as it finds it
ScanCellInPlace ==
    /\ gpc = "scan"
    /\ row <= Len(grid)
    /\ LET hit == grid[row][col] = Marker /\ isAccessibleMutable(grid, row, col)
           nxt == NextCursor(grid, row, col)
       IN  /\ accessible' = IF hit THEN Append(accessible, <<row, col>>) ELSE accessible
           /\ grid' = IF hit THEN ClearAll(grid, << <<row, col>> >>) ELSE grid
           /\ row' = nxt[1]
           /\ col' = nxt[2]
    /\ UNCHANGED <<gpc, totalRemoved, grid0, passStart, prevGrid, passes, lastBatch>>

\* findAccessibleRolls: one iteration of the inner loop, at cell (row, col)
ScanCell ==
    /\ gpc = "scan"
    /\ row <= Len(grid)
    /\ IF grid[row][col] = Marker /\ lookupPanics(grid, row, col)
       THEN /\ gpc' = "panic"
            /\ UNCHANGED <<accessible, row, col>>
       ELSE LET hit == grid[row][col] = Marker /\ isAccessibleMutable(grid, row, col)
                nxt == NextCursor(grid, row, col)
            IN  /\ accessible' = IF hit THEN Append(accessible, <<row, col>>)
                                  ELSE accessible
                /\ row' = nxt[1]
                /\ col' = nxt[2]
                /\ UNCHANGED gpc
    /\ UNCHANGED <<grid, totalRemoved, grid0, passStart, prevGrid, passes, lastBatch>>

\* Part2 with `if` in place of `for`: it returns after one removing pass
ScanReturnOnePass ==
    /\ gpc = "scan"
    /\ row > Len(grid)
    /\ gpc' = IF Len(accessible) = 0 \/ passes >= 1 THEN "done" ELSE "remove"
    /\ UNCHANGED <<grid, accessible, row, col, totalRemoved,
                   grid0, passStart, prevGrid, passes, lastBatch>>

\* findAccessibleRolls returns; Part2 breaks out of the loop on an empty batch
ScanReturn ==
    /\ gpc = "scan"
    /\ row > Len(grid)
    /\ gpc' = IF Len(accessible) = 0 THEN "done" ELSE "remove"
    /\ UNCHANGED <<grid, accessible, row, col, totalRemoved,
                   grid0, passStart, prevGrid, passes, lastBatch>>

\* a batch removal that adds to the total but leaves the cells in place
RemoveBatchKeepCells ==
    /\ gpc = "remove"
    /\ grid' = grid
    /\ totalRemoved' = totalRemoved + Len(accessible)
    /\ prevGrid' = grid
    /\ passStart' = grid'
    /\ passes' = passes + 1
    /\ lastBatch' = accessible
    /\ accessible' = <<>>
    /\ row' = 1
    /\ col' = 1
    /\ gpc' = "scan"
    /\ UNCHANGED grid0

\* a batch removal that adds 1 to the total for the pass, not the batch's size
RemoveBatchCountsPasses ==
    /\ gpc = "remove"
    /\ grid' = ClearAll(grid, accessible)
    /\ totalRemoved' = totalRemoved + 1
    /\ prevGrid' = grid
    /\ passStart' = grid'
    /\ passes' = passes + 1
    /\ lastBatch' = accessible
    /\ accessible' = <<>>
    /\ row' = 1
    /\ col' = 1
    /\ gpc' = "scan"
    /\ UNCHANGED grid0

\* Part2, lines 28-33: clear the batch, add its size, start the next pass
RemoveBatch ==
    /\ gpc = "remove"
    /\ grid' = ClearAll(grid, accessible)
    /\ totalRemoved' = totalRemoved + Len(accessible)
    /\ prevGrid' = grid
    /\ passStart' = grid'
    /\ passes' = passes + 1
    /\ lastBatch' = accessible
    /\ accessible' = <<>>
    /\ row' = 1
    /\ col' = 1
    /\ gpc' = "scan"
    /\ UNCHANGED grid0

\* Part2 has returned; Part2 is called on an input holding the grid it left
Part2Again ==
    /\ gpc = "done"
    /\ reruns < MaxReruns
    /\ reruns' = reruns + 1
    /\ prevRemoved' = totalRemoved
    /\ grid0' = grid
    /\ passStart' = grid
    /\ prevGrid' = grid
    /\ accessible' = <<>>
    /\ row' = 1
    /\ col' = 1
    /\ gpc' = "scan"
    /\ totalRemoved' = 0
    /\ passes' = 0
    /\ lastBatch' = <<>>
    /\ UNCHANGED <<grid, part1Vars>>

-----------------------------------------------------------------------------
(* cmd/main.go: the dispatcher *)

\* the registry, in registration order
solvers ==
    << [day |-> 1, part |-> 1], [day |-> 1, part |-> 2],
       [day |-> 2, part |-> 1], [day |-> 2, part |-> 2] >>

\* the candidate input directories, tried in this order
possiblePaths == << "go/inputs", "inputs", "../go/inputs" >>

Days == { solvers[i].day : i \in 1 .. Len(solvers) }

NoInputDir == ""

\* the filter loop: the registered solvers of the day, and of the part if one
\* is asked for, in registration order
Filtered(d, p) ==
    SelectSeq(solvers, LAMBDA s : s.day = d /\ (p = 0 \/ s.part = p))

Line(k, s) == [kind |-> k, day |-> s.day, part |-> s.part]
Banner    == [kind |-> "banner", day |-> 0, part |-> 0]
TotalTime == [kind |-> "total", day |-> 0, part |-> 0]

DispatchIdle ==
    /\ dayFlag = 0
    /\ partFlag = 0
    /\ existingPaths = {}
    /\ existingInputs = {}
    /\ inputDir = NoInputDir
    /\ toRun = <<>>
    /\ next = 1
    /\ dpc = "start"
    /\ output = <<>>

\* main is entered: flags parsed, nothing looked up yet
DispatchInit ==
    /\ dayFlag \in 0 .. MaxFlag
    /\ partFlag \in 0 .. MaxFlag
    /\ existingPaths \in SUBSET Range(possiblePaths)
    /\ existingInputs \in SUBSET Days
    /\ inputDir = NoInputDir
    /\ toRun = <<>>
    /\ next = 1
    /\ dpc = "start"
    /\ output = <<>>

\* lines 40-57: the first candidate path that exists, or log.Fatalf
FindInputDir ==
    /\ dpc = "start"
    /\ LET found == { i \in 1 .. Len(possiblePaths) : possiblePaths[i] \in existingPaths }
       IN  IF found = {}
           THEN /\ dpc' = "fatal"
                /\ UNCHANGED inputDir
           ELSE /\ inputDir' = possiblePaths[CHOOSE i \in found : \A j \in found : i <= j]
                /\ dpc' = "filter"
    /\ UNCHANGED <<dayFlag, partFlag, existingPaths, existingInputs, toRun, next, output>>

\* lines 59-81: select the solvers to run, or log.Fatalf when a day was asked
\* for and nothing matches; then print the banner
FilterSolvers ==
    /\ dpc = "filter"
    /\ toRun' = IF dayFlag = 0 THEN solvers ELSE Filtered(dayFlag, partFlag)
    /\ IF dayFlag # 0 /\ Len(toRun') = 0
       THEN /\ dpc' = "fatal"
            /\ UNCHANGED output
       ELSE /\ dpc' = "run"
            /\ output' = Append(output, Banner)
    /\ UNCHANGED <<dayFlag, partFlag, existingPaths, existingInputs, inputDir, next>>

\* the loop body with `break` in place of `continue` on a missing input
RunSolverStopOnMissing ==
    /\ dpc = "run"
    /\ next <= Len(toRun)
    /\ LET solver == toRun[next]
       IN  IF solver.day \notin existingInputs
           THEN /\ output' = Append(output, Line("missing", solver))
                /\ next' = Len(toRun) + 1
           ELSE /\ \E outcome \in {"result", "error"} :
                      output' = Append(output, Line(outcome, solver))
                /\ next' = next + 1
    /\ UNCHANGED <<dayFlag, partFlag, existingPaths, existingInputs, inputDir, toRun, dpc>>

\* lines 84-101: one iteration of the run loop; the solver returns a result
\* or an error
RunSolver ==
    /\ dpc = "run"
    /\ next <= Len(toRun)
    /\ LET solver == toRun[next]
       IN  IF solver.day \notin existingInputs
           THEN output' = Append(output, Line("missing", solver))
           ELSE \E outcome \in {"result", "error"} :
                    output' = Append(output, Line(outcome, solver))
    /\ next' = next + 1
    /\ UNCHANGED <<dayFlag, partFlag, existingPaths, existingInputs, inputDir, toRun, dpc>>

\* lines 103-105: the loop is over; print the total time and return
PrintTotal ==
    /\ dpc = "run"
    /\ next > Len(toRun)
    /\ output' = Append(output, TotalTime)
    /\ dpc' = "exit"
    /\ UNCHANGED <<dayFlag, partFlag, existingPaths, existingInputs, inputDir, toRun, next>>

-----------------------------------------------------------------------------
(* Specifications *)

DialNext ==
    \/ DialRotate /\ UNCHANGED <<fnVars, parseVars, dispVars, solveVars, gridVars>>
    \/ DialReset /\ UNCHANGED <<fnVars, parseVars, dispVars, solveVars, gridVars>>
    \/ DialRead /\ UNCHANGED <<fnVars, parseVars, dispVars, solveVars, gridVars>>

DialSpecInit == DialInit /\ FnIdle /\ ParseIdle /\ SolveIdle /\ GridIdle /\ DispatchIdle

DialSpec == DialSpecInit /\ [][DialNext]_vars

FnNext == Evaluate /\ UNCHANGED <<dialVars, parseVars, dispVars, solveVars, gridVars>>

FnSpecInit == FnInit /\ DialIdle /\ ParseIdle /\ SolveIdle /\ GridIdle /\ DispatchIdle

FnSpec == FnSpecInit /\ [][FnNext]_vars

SolveNext ==
    \/ SolverScan /\ UNCHANGED <<op, lastRot, nrot, reduceVars, fnVars, parseVars, dispVars, gridVars>>
    \/ SolverReturn /\ UNCHANGED <<op, lastRot, clicks, nrot, reduceVars, fnVars, parseVars, dispVars, gridVars>>
    \/ LegacyScan /\ UNCHANGED <<op, lastRot, clicks, nrot, reduceVars, fnVars, parseVars, dispVars, gridVars>>
    \/ LegacyReturn /\ UNCHANGED <<op, lastRot, clicks, nrot, reduceVars, fnVars, parseVars, dispVars, gridVars>>
    \/ SolveAgain /\ UNCHANGED <<op, lastRot, nrot, reduceVars, fnVars, parseVars, dispVars, gridVars>>
    \/ PartAgain /\ UNCHANGED <<op, lastRot, nrot, reduceVars, fnVars, parseVars, dispVars, gridVars>>

GridNext ==
    \/ Part1Cell /\ UNCHANGED <<dialVars, fnVars, parseVars, dispVars, solveVars,
                     orderVars>>
    \/ Part1Return /\ UNCHANGED <<dialVars, fnVars, parseVars, dispVars, solveVars,
                     orderVars>>
    \/ ScanCell /\ UNCHANGED <<dialVars, fnVars, parseVars, dispVars, solveVars,
                     part1Vars, reruns, prevRemoved, orderVars>>
    \/ ScanReturn /\ UNCHANGED <<dialVars, fnVars, parseVars, dispVars, solveVars,
                     part1Vars, reruns, prevRemoved, orderVars>>
    \/ RemoveBatch /\ UNCHANGED <<dialVars, fnVars, parseVars, dispVars, solveVars,
                     part1Vars, reruns, prevRemoved, orderVars>>
    \/ Part2Again /\ UNCHANGED <<dialVars, fnVars, parseVars, dispVars, solveVars,
                     orderVars>>

GridSpecInit == GridInit /\ DialIdle /\ FnIdle /\ ParseIdle /\ SolveIdle /\ DispatchIdle

GridSpec == GridSpecInit /\ [][GridNext]_vars

SolveSpecInit == SolveInit /\ FnIdle /\ ParseIdle /\ GridIdle /\ DispatchIdle

ParseNext == ParseLine /\ UNCHANGED <<dialVars, fnVars, dispVars, solveVars, gridVars>>

ParseSpecInit == ParseInit /\ DialIdle /\ FnIdle /\ SolveIdle /\ GridIdle /\ DispatchIdle

ParseSpec == ParseSpecInit /\ [][ParseNext]_vars

SolveSpec == SolveSpecInit /\ [][SolveNext]_vars

DispatchNext ==
    \/ FindInputDir /\ UNCHANGED <<dialVars, fnVars, parseVars, solveVars, gridVars>>
    \/ FilterSolvers /\ UNCHANGED <<dialVars, fnVars, parseVars, solveVars, gridVars>>
    \/ RunSolver /\ UNCHANGED <<dialVars, fnVars, parseVars, solveVars, gridVars>>
    \/ PrintTotal /\ UNCHANGED <<dialVars, fnVars, parseVars, solveVars, gridVars>>

DispatchSpecInit ==
    DispatchInit /\ DialIdle /\ FnIdle /\ ParseIdle /\ SolveIdle /\ GridIdle

DispatchSpec == DispatchSpecInit /\ [][DispatchNext]_vars

-----------------------------------------------------------------------------
(* Notions the properties are stated with *)

Markers(g) == { cell \in Cells(g) : g[cell[1]][cell[2]] = Marker }

InGrid(g, cell) ==
    /\ cell[1] \in 1 .. Len(g)
    /\ cell[2] \in 1 .. Len(g[cell[1]])

\* the markers among the existing 8-connected neighbours of a cell
MarkerNeighbours(g, cell) ==
    { n \in ((cell[1] - 1) .. (cell[1] + 1)) \X ((cell[2] - 1) .. (cell[2] + 1)) :
        /\ n # cell
        /\ InGrid(g, n)
        /\ g[n[1]][n[2]] = Marker }

Removable(g) ==
    { cell \in Markers(g) : Cardinality(MarkerNeighbours(g, cell)) < Threshold }

\* cell comes before the cursor (r, c) in scan order
ScannedBefore(cell, r, c) == cell[1] < r \/ (cell[1] = r /\ cell[2] < c)

\* the state a removing pass leaves: the batch is cleared, the next scan not begun
PassJustEnded == passes > 0 /\ gpc = "scan" /\ row = 1 /\ col = 1

\* every rotation the file holds has a distance of 1 or more
DistancesAtLeastOne(f) ==
    \A i \in 1 .. Len(f) :
        ParseRotation(f[i]).ok => ParseRotation(f[i]).rot.Distance >= 1

\* the rotation lines of the file above physical line n
RotationLinesBefore(f, n) ==
    Cardinality({ i \in 1 .. n - 1 : TrimSpace(f[i]) # <<>> })

-----------------------------------------------------------------------------
(* Removal one marker at a time: the procedure Part2's batches are compared *)
(* with. It is no part of the program; it works on oneByOne, a copy of the   *)
(* grid Part2 was given, once Part2 has returned.                           *)

RemoveOne ==
    /\ gpc = "done"
    /\ \E cell \in Removable(oneByOne) :
          oneByOne' = ClearAll(oneByOne, << cell >>)
    /\ oneRemoved' = oneRemoved + 1
    /\ UNCHANGED <<grid, accessible, row, col, gpc, totalRemoved,
                   grid0, passStart, prevGrid, passes, lastBatch,
                   part1Vars, reruns, prevRemoved>>

OrderNext ==
    \/ Part1Cell /\ UNCHANGED <<dialVars, fnVars, parseVars, dispVars, solveVars,
                     orderVars>>
    \/ Part1Return /\ UNCHANGED <<dialVars, fnVars, parseVars, dispVars, solveVars,
                     orderVars>>
    \/ ScanCell /\ UNCHANGED <<dialVars, fnVars, parseVars, dispVars, solveVars,
                     part1Vars, reruns, prevRemoved, orderVars>>
    \/ ScanReturn /\ UNCHANGED <<dialVars, fnVars, parseVars, dispVars, solveVars,
                     part1Vars, reruns, prevRemoved, orderVars>>
    \/ RemoveBatch /\ UNCHANGED <<dialVars, fnVars, parseVars, dispVars, solveVars,
                     part1Vars, reruns, prevRemoved, orderVars>>
    \/ RemoveOne /\ UNCHANGED <<dialVars, fnVars, parseVars, dispVars, solveVars>>

OrderSpecInit == GridInit /\ DialIdle /\ FnIdle /\ ParseIdle /\ SolveIdle /\ DispatchIdle

OrderSpec == OrderSpecInit /\ [][OrderNext]_vars

\* two different cells that touch, diagonally included
Adjacent(a, b) ==
    /\ a # b
    /\ a[1] - b[1] \in -1 .. 1
    /\ a[2] - b[2] \in -1 .. 1

\* every cell of the set has at least 4 neighbours in the set
Stable(set) ==
    \A m \in set : Cardinality({ n \in set : Adjacent(n, m) }) >= 4

-----------------------------------------------------------------------------
(* Properties *)

\* C1: with the crosses-zero strategy the count accumulated by Dial.Rotate from
\* position 50 over the rotations of a file equals the number of single clicks
\* of the whole sequence after which the dial reads 0.
C1_CountIsClicksOnZero ==
    (impl = "solver" /\ counter = ZeroCrossingCounter) => count = clicks

\* C2: after NewDial and after every Rotate the position is in [0,100); Apply
\* returns a value in [0,100) from the dial's position for every rotation, and
\* Normalize returns a value in [0,100) for the difference and for the sum of
\* every position in [0,100) and the distance last rotated by, negative
\* differences included.
C2_PositionInRange ==
    /\ position \in 0 .. DialSize - 1
    /\ \A r \in Rotations : Apply(r, position) \in 0 .. DialSize - 1
    /\ \A p \in 0 .. DialSize - 1 :
          /\ Normalize(p - lastRot.Distance) \in 0 .. DialSize - 1
          /\ Normalize(p + lastRot.Distance) \in 0 .. DialSize - 1

\* C2 witness: a left rotation of at least a full turn has been applied, so the
\* difference position - distance was negative before it was normalized.
C2_NegativeDifferenceNormalized ==
    /\ op = "rotate"
    /\ lastRot.Direction = Left
    /\ lastRot.Distance >= DialSize
    /\ position > 0

\* C3: every Dial.Rotate of a solve leaves Count() greater than or equal to
\* Count() before it, with either counting strategy.
C3_CountNeverDecreases ==
    [][(impl = "solver" /\ applied' = applied + 1) => count' >= count]_vars

\* C4: during a pass the grid stays as it stood when the pass began until the
\* scan has finished, and the cells collected so far are exactly the scanned
\* cells that are removable in the grid as it stood when the pass began.
C4_SimultaneousUpdate ==
    /\ grid = passStart
    /\ Range(accessible) =
          { cell \in Removable(passStart) : ScannedBefore(cell, row, col) }

\* C4 witness: a finished scan whose batch, once cleared, leaves a marker that
\* was not collected with fewer than 4 marker neighbours.
C4_BatchLowersANeighbourCount ==
    /\ gpc = "remove"
    /\ \E cell \in Markers(grid) \ Range(accessible) :
          cell \in Removable(ClearAll(grid, accessible))

\* C5: every pass that does not stop the loop removes at least one marker, the
\* number of markers strictly decreases from pass to pass, the number of
\* removing passes is at most the initial number of markers, and the reducer
\* never stops before it has returned.
C5_ReducerTerminates ==
    /\ gpc = "remove" => Len(accessible) >= 1
    /\ PassJustEnded =>
          /\ Len(lastBatch) >= 1
          /\ Cardinality(Markers(grid)) < Cardinality(Markers(prevGrid))
    /\ passes <= Cardinality(Markers(grid0))
    /\ gpc = "done" \/ ENABLED GridNext

\* C5 witness: the reducer has returned after three or more removing passes.
C5_ReturnedAfterSeveralPasses ==
    /\ gpc = "done"
    /\ passes >= 3

\* C6: when the reducer returns every remaining marker has at least 4 marker
\* neighbours, and each pass removed exactly the markers that had fewer than 4
\* marker neighbours when that pass began.
C6_FixedPoint ==
    /\ gpc = "done" =>
          \A cell \in Markers(grid) :
              Cardinality(MarkerNeighbours(grid, cell)) >= Threshold
    /\ PassJustEnded =>
          /\ Range(lastBatch) = Removable(prevGrid)
          /\ Markers(grid) = Markers(prevGrid) \ Removable(prevGrid)

\* C6 witness: the reducer has returned, after a removing pass, with markers
\* left in the grid.
C6_NonEmptyFixedPoint ==
    /\ gpc = "done"
    /\ passes > 0
    /\ Markers(grid) # {}

\* C7: a step that applies a rotation adds the contribution computed from the
\* position held before the step and then moves to the rotated position, in
\* Dial.Rotate and in the legacy Part2 handler.
C7_CountThenRotate ==
    [][applied' = applied + 1 =>
          LET line == TrimSpace(file[lineNum'])
              r    == [Direction |-> line[1], Distance |-> Atoi(Tail(line)).val]
          IN  /\ impl = "solver" =>
                    /\ count' = count + CounterCount(counter, r, position)
                    /\ position' = Apply(r, position)
              /\ (impl = "legacy" /\ part = 2) =>
                    /\ lcount' = lcount
                          + countPassesThroughZero(lposition, r.Direction, r.Distance)
                    /\ lposition' = rotate(lposition, r.Direction, r.Distance)]_vars

\* C7 witness: the first rotation of a solve has been applied by Dial.Rotate and
\* the count is the contribution from position 50, which differs from the
\* contribution the rotated position would give.
C7_ContributionFromOldPosition ==
    /\ impl = "solver"
    /\ applied = 1
    /\ lineNum = 1
    /\ LET r == ParseRotation(file[1]).rot
       IN  /\ count = CounterCount(counter, r, StartPosition)
           /\ count # CounterCount(counter, r, position)

\* C8: for every position in 0..99, both directions and every distance in
\* 0..500, CountZeroCrossings and the legacy countPassesThroughZero return the
\* same number.
C8_CrossingsAgree ==
    (fout.done /\ fin.d \in 0 .. MaxEquivDistance) => fout.crossings = fout.passes

\* C8 witness: both have been evaluated for a left rotation of 250 from 0.
C8_LeftFromZeroEvaluated ==
    /\ fout.done
    /\ fin = [p |-> 0, dir |-> Left, d |-> 250]
    /\ fout.crossings = 2

\* C9: a solve that ends with an error returns the result 0, and has applied
\* only the rotations of the lines above the line it failed on.
C9_NoPartialResult ==
    (spc = "done" /\ err # NoError) =>
        /\ result = 0
        /\ applied = RotationLinesBefore(file, lineNum)

\* C10: the error of a solve that fails on a line names the 1-based number of
\* that line in the file, blank lines counted.
C10_ErrorNamesLine ==
    (spc = "done" /\ err # NoError) => (err.hasLine /\ err.line = lineNum)

\* the token grammar of a rotation line: L or R, then one or more decimal digits
WellFormedToken(s) ==
    /\ Len(s) >= 2
    /\ s[1] \in {Left, Right}
    /\ \A i \in 2 .. Len(s) : s[i] \in Digits

\* C11: a line that is not blank is accepted, by ParseRotation and by the loop
\* of parseRotations, exactly when, surrounding white space set aside, it is L
\* or R followed by a non-negative decimal integer; an accepted line yields a
\* distance of at least 0.
C11_AcceptedIffWellFormed ==
    (pout.done /\ TrimSpace(pin) # <<>>) =>
        /\ pout.ok <=> WellFormedToken(TrimSpace(pin))
        /\ pout.legacyOk <=> WellFormedToken(TrimSpace(pin))
        /\ pout.ok => pout.distance >= 0
        /\ pout.legacyOk => pout.legacyDistance >= 0

\* C12: for every position p in 0..99 and every distance d >= 0,
\* CountZeroCrossings returns floor(d/100) for a left rotation from 0, for a
\* left rotation from p > 0 it returns 1 + floor((d - p)/100) when d >= p and 0
\* otherwise, and for a right rotation it returns floor((p + d)/100).
C12_AsymmetricFormula ==
    (fout.done /\ fin.d >= 0) =>
        fout.crossings =
            IF fin.dir = Left
            THEN IF fin.p = 0
                 THEN fin.d \div 100
                 ELSE IF fin.d >= fin.p THEN 1 + ((fin.d - fin.p) \div 100) ELSE 0
            ELSE (fin.p + fin.d) \div 100

\* C12 witness: a right rotation of 170 from 30 has been evaluated, to 2
\* crossings.
C12_RightCrossesTwice ==
    /\ fout.done
    /\ fin = [p |-> 30, dir |-> Right, d |-> 170]
    /\ fout.crossings = 2

\* C13: for every position in 0..99 and every distance, Apply returns
\* (position - distance) mod 100 for a left rotation and (position + distance)
\* mod 100 for a right rotation, mod being the mathematical modulo with a
\* result in [0,100); evaluating it changes neither its arguments nor the
\* position, the count or the strategy of any dial.
C13_ApplyIsPure ==
    /\ [](fout.done =>
            fout.applied = IF fin.dir = Left
                           THEN (fin.p - fin.d) % 100
                           ELSE (fin.p + fin.d) % 100)
    /\ [][fout'.done => (fin' = fin /\ UNCHANGED <<position, count, counter>>)]_vars

\* C13 witness: Apply has been evaluated for a left rotation of 30 from 10,
\* whose difference is negative, to 80.
C13_NegativeDifferenceApplied ==
    /\ fout.done
    /\ fin = [p |-> 10, dir |-> Left, d |-> 30]
    /\ fout.applied = 80

\* C14: with the ends-at-zero strategy the count of a solve equals the number
\* of rotations applied so far after which the dial read 0, in the Solver
\* (EndPositionCounter) and in the legacy Part1, and a solve that ends without
\* an error returns that number.
C14_CountsLandingsOnZero ==
    part = 1 =>
        /\ impl = "solver" => count = landings
        /\ impl = "legacy" => lcount = landings
        /\ (spc = "done" /\ err = NoError) => result = landings

\* C14 witness: a Part1 solve by the Solver has returned 2 after three
\* rotations, one of which left the dial off 0.
C14_TwoLandingsInThree ==
    /\ impl = "solver"
    /\ part = 1
    /\ spc = "done"
    /\ err = NoError
    /\ applied = 3
    /\ result = 2

\* C15: a dial just created stands at position 50 with count 0; Reset, after
\* any sequence of rotations, puts the position back to 50 and the count to 0
\* and leaves the strategy as it was; the accessors Position and Count change
\* neither the position, nor the count, nor the strategy.
C15_CreateResetRead ==
    /\ [](op = "new" => (position = 50 /\ count = 0))
    /\ [][op' = "reset" => (position' = 50 /\ count' = 0 /\ counter' = counter)]_vars
    /\ [][op' = "read" => UNCHANGED <<position, count, counter>>]_vars

\* C15 witness: a dial with the crosses-zero strategy has been reset after two
\* or more rotations, the last of them two clicks to the left.
C15_ResetAfterRotations ==
    /\ op = "reset"
    /\ nrot >= 2
    /\ lastRot = [Direction |-> Left, Distance |-> 2]
    /\ counter = ZeroCrossingCounter
    /\ position = 50
    /\ count = 0

\* C16: every solve starts with its dial at position 50 and count 0, and a
\* solve of a file that was solved before, by Part1, by Part2 or by Solve on a
\* Solver, returns what the solve before it returned.
C16_SolveAgainReturnsTheSame ==
    /\ (spc = "run" /\ lineNum = 0) =>
          /\ impl = "solver" => (position = 50 /\ count = 0)
          /\ impl = "legacy" => (lposition = 50 /\ lcount = 0)
    /\ (spc = "done" /\ runs >= 1) => (result = prevResult /\ err = prevErr)

\* C17: no neighbour lookup of isAccessibleMutable is out of range, on ragged
\* grids too, and for the cell under the cursor isAccessibleMutable (Part2)
\* and isAccessible (Part1) are true exactly when fewer than 4 of the cell's
\* existing 8-connected neighbours hold a marker, a neighbour position outside
\* the grid or beyond the end of its own row counting as no marker.
C17_BoundaryLookupsSafe ==
    /\ gpc # "panic"
    /\ (gpc = "scan" /\ row <= Len(grid)) =>
          /\ ~lookupPanics(grid, row, col)
          /\ isAccessibleMutable(grid, row, col)
                <=> Cardinality(MarkerNeighbours(grid, <<row, col>>)) < 4
    /\ (gpc = "part1" /\ part1Row <= Len(grid)) =>
          isAccessible(grid, part1Row, part1Col)
              <=> Cardinality(MarkerNeighbours(grid, <<part1Row, part1Col>>)) < 4

\* C17 witness: in a grid whose first row has 3 cells and whose second row has
\* 1, the marker at the end of the first row, two of whose neighbour positions
\* lie beyond the end of the second row, has been scanned and collected.
C17_RaggedCornerScanned ==
    /\ gpc = "scan"
    /\ passes = 0
    /\ Len(grid) = 2
    /\ Len(grid[1]) = 3
    /\ Len(grid[2]) = 1
    /\ <<1, 3>> \in Range(accessible)

\* C18: Part2 run again on the grid it left behind removes nothing: it makes
\* no removing pass, leaves the grid as it found it and returns 0.
C18_RerunRemovesNothing ==
    reruns >= 1 =>
        /\ grid = grid0
        /\ passes = 0
        /\ totalRemoved = 0
        /\ gpc # "remove"

\* C18 witness: Part2 has returned from a second run, on a grid that still
\* holds markers and from which the first run had removed some.
C18_RerunOnNonEmptyRemainder ==
    /\ reruns = 1
    /\ gpc = "done"
    /\ prevRemoved > 0
    /\ Markers(grid) # {}

\* the 3x3 grid with a marker in every cell
PackedBlock == [r \in 1 .. 3 |-> [c \in 1 .. 3 |-> Marker]]

\* C19: from a grid holding a single marker the first pass removes that marker
\* and Part2 returns 1 after that one removing pass; from the fully packed 3x3
\* block the first pass removes boundary markers only and leaves the interior
\* marker, which goes in a later pass, and Part2 returns 9 with the grid empty.
C19_SingleMarkerAndPackedBlock ==
    /\ (Cardinality(Markers(grid0)) = 1 /\ passes >= 1) =>
          /\ Markers(grid) = {}
          /\ totalRemoved = 1
          /\ passes = 1
    /\ (Cardinality(Markers(grid0)) = 1 /\ gpc = "done") =>
          /\ totalRemoved = 1
          /\ passes = 1
    /\ (grid0 = PackedBlock /\ passes = 1) =>
          /\ Range(lastBatch) # {}
          /\ <<2, 2>> \notin Range(lastBatch)
          /\ grid[2][2] = Marker
    /\ (grid0 = PackedBlock /\ gpc = "done") =>
          /\ Markers(grid) = {}
          /\ totalRemoved = 9
          /\ passes >= 2

\* C19 witness: Part2 has returned 9 from the fully packed 3x3 block.
C19_PackedBlockReduced ==
    /\ grid0 = PackedBlock
    /\ gpc = "done"
    /\ totalRemoved = 9

\* the lines printed for solvers: a result, an error or a missing input
Reports ==
    SelectSeq(output, LAMBDA l : l.kind \in {"result", "error", "missing"})

\* the place of a solver in the registry
Registered(s) == CHOOSE k \in 1 .. Len(solvers) : solvers[k] = s

\* C20: the solvers to run are handled one after another in registration
\* order and each is reported exactly once, by a result, an error or a
\* missing-input line, the latter exactly when the input of its day is
\* missing; a missing input or an error never stops the run, which ends only
\* when every selected solver is reported; the total-time line is printed
\* once, last, after all of them are reported.
C20_EachSolverReportedInOrder ==
    /\ \A i, j \in 1 .. Len(toRun) :
          i < j => Registered(toRun[i]) < Registered(toRun[j])
    /\ dpc \in {"run", "exit"} =>
          /\ Len(Reports) = next - 1
          /\ \A i \in 1 .. Len(Reports) :
                /\ Reports[i].day = toRun[i].day
                /\ Reports[i].part = toRun[i].part
                /\ Reports[i].kind = "missing" <=> toRun[i].day \notin existingInputs
          /\ next <= Len(toRun) => ENABLED RunSolver
    /\ dpc = "fatal" => output = <<>>
    /\ dpc = "exit" => Len(Reports) = Len(toRun)
    /\ \A i \in 1 .. Len(output) :
          output[i] = TotalTime =>
              /\ i = Len(output)
              /\ dpc = "exit"
              /\ Len(Reports) = Len(toRun)

\* C20 witness: the dispatcher has returned after running all four solvers,
\* the input of day 1 missing and the first solver of day 2 ending with an
\* error, and the last solver was reported with a result.
C20_LaterSolversStillRun ==
    /\ dpc = "exit"
    /\ Len(toRun) = 4
    /\ Reports[1].kind = "missing"
    /\ Reports[3].kind = "error"
    /\ Reports[4].kind = "result"
    /\ output[Len(output)] = TotalTime

\* the registered solvers the flags ask for, in registration order: those of
\* the day asked for (of every day for 0) and of the part asked for (of every
\* part for 0)
Requested ==
    SelectSeq(solvers, LAMBDA s : /\ (dayFlag = 0 \/ s.day = dayFlag)
                                  /\ (partFlag = 0 \/ s.part = partFlag))

\* C21: once the dispatcher has selected the solvers to run, they are exactly
\* the registered solvers whose day is the -day flag (any day for 0) and whose
\* part is the -part flag (any part for 0), in registration order.
C21_RunsExactlyTheRequested ==
    dpc \in {"run", "exit"} => toRun = Requested

\* C22: the dispatcher ends fatally, having printed nothing, exactly when no
\* candidate inputs directory exists or no registered solver is of the day
\* and part asked for; in every other case it goes on to the solver loop,
\* from which it exits only normally.
C22_FatalExactlyWhenNothingToRun ==
    /\ dpc = "fatal" =>
          /\ output = <<>>
          /\ existingPaths = {} \/ Len(Requested) = 0
    /\ dpc \in {"run", "exit"} =>
          /\ existingPaths # {}
          /\ Len(Requested) > 0
    /\ dpc \in {"start", "filter", "run"} => ENABLED DispatchNext

\* a blank line: nothing, or nothing but white space
Blank(line) == TrimSpace(line) = <<>>

\* C23: a blank line of a dial input file is ignored: the step that reads it
\* moves to the next line and changes neither the dial, nor the number of
\* rotations applied, nor whether the run goes on, nor its result or error, so
\* that the outcome of a run is that of the file without its blank lines.
C23_BlankLinesIgnored ==
    [][(lineNum' = lineNum + 1 /\ Blank(file[lineNum'])) =>
          UNCHANGED <<position, count, lposition, lcount, applied, spc, result, err>>]_vars

\* C24: every step leaves the number of rows and the length of every row as
\* they were; a cell changes only in the step that removes a batch, where the
\* cells that change are exactly the cells collected for the pass, each from
\* marker to empty; no cell ever changes from empty to marker.
C24_PassChangesOnlyTheBatch ==
    [][/\ Len(grid') = Len(grid)
       /\ \A r \in 1 .. Len(grid) : Len(grid'[r]) = Len(grid[r])
       /\ \A cell \in Cells(grid) :
             /\ grid'[cell[1]][cell[2]] # grid[cell[1]][cell[2]]
                   <=> (gpc = "remove" /\ cell \in Range(accessible))
             /\ grid'[cell[1]][cell[2]] # grid[cell[1]][cell[2]] =>
                   /\ grid[cell[1]][cell[2]] = Marker
                   /\ grid'[cell[1]][cell[2]] = Empty]_vars

\* C24 witness: a pass has just cleared a batch of two or more cells and left
\* markers in the grid.
C24_BatchClearedMarkersLeft ==
    /\ PassJustEnded
    /\ Len(lastBatch) >= 2
    /\ Markers(grid) # {}
    /\ Markers(grid) = Markers(prevGrid) \ Range(lastBatch)

\* C25: at the start of every pass and when Part2 has returned, the running
\* total plus the number of markers in the grid is the number of markers of
\* the initial grid.
C25_Conservation ==
    gpc \in {"scan", "done"} =>
        totalRemoved + Cardinality(Markers(grid)) = Cardinality(Markers(grid0))

\* C25 witness: Part2 has returned, having removed markers and left markers,
\* its result being the initial number of markers less the number left.
C25_ReturnedInitialLessRemaining ==
    /\ gpc = "done"
    /\ totalRemoved >= 2
    /\ Markers(grid) # {}
    /\ totalRemoved = Cardinality(Markers(grid0)) - Cardinality(Markers(grid))

\* C26: once Part2 has returned, taking removable markers out of the initial
\* grid one at a time, in any order, never takes out a marker Part2 left, and
\* when no marker is removable any more the grid is the grid Part2 left and
\* as many markers were taken out as Part2 returned; the markers Part2 left
\* are a set in which every marker has at least 4 neighbours in the set, and
\* adding removed markers to them never gives such a set (tried with every set
\* of removed markers where Part2 removed at most MaxExtra).
C26_OrderIndependent ==
    gpc = "done" =>
        /\ Markers(grid) \subseteq Markers(oneByOne)
        /\ Removable(oneByOne) = {} =>
              /\ oneByOne = grid
              /\ oneRemoved = totalRemoved
        /\ (oneRemoved = 0 /\ Len(grid0) > MaxRows) =>
              /\ Stable(Markers(grid))
              /\ totalRemoved <= MaxExtra =>
                    \A extra \in SUBSET (Markers(grid0) \ Markers(grid)) :
                        extra # {} => ~Stable(Markers(grid) \cup extra)

\* C26 witness: one-at-a-time removal has come to an end, after two or more
\* removals, on a grid that still holds markers.
C26_OneByOneEndsOnRemainder ==
    /\ gpc = "done"
    /\ oneRemoved >= 2
    /\ Removable(oneByOne) = {}
    /\ Markers(oneByOne) # {}

\* C27: on the grid of one input, isAccessible and isAccessibleMutable select
\* the same cells; the count Part1 returned is the size of the batch Part2's
\* first scan collects and the number of cells its first pass removes, and
\* the count Part2 returns is at least the count Part1 returned.
C27_Part1IsFirstPass ==
    reruns = 0 =>
        /\ gpc = "part1" =>
              \A cell \in Cells(grid) :
                  isAccessible(grid, cell[1], cell[2])
                      <=> isAccessibleMutable(grid, cell[1], cell[2])
        /\ (gpc = "scan" /\ passes = 0 /\ row > Len(grid)) =>
              Len(accessible) = part1Count
        /\ (PassJustEnded /\ passes = 1) =>
              /\ Len(lastBatch) = part1Count
              /\ totalRemoved = part1Count
        /\ gpc = "done" => totalRemoved >= part1Count

\* C27 witness: Part2 has returned more than the two or more cells Part1
\* counted on the same input.
C27_Part2ReturnedMoreThanPart1 ==
    /\ gpc = "done"
    /\ reruns = 0
    /\ part1Count >= 2
    /\ totalRemoved > part1Count

\* C28: Reduce(50, counter) over the rotations a fresh dial with that counter
\* was given, in the same order, has the count the dial has, and the position
\* Reduce ends on is the dial's position.
C28_ReduceIsTheDial ==
    /\ rcount = count
    /\ rposition = position

\* C28 witness: the dial and Reduce have both been through three rotations
\* and count two or more, away from the starting position.
C28_ReducedThreeRotations ==
    /\ nrot = 3
    /\ op = "rotate"
    /\ rcount >= 2
    /\ rposition # StartPosition

\* C29: for every rotation of distance 1 or more, from every position in
\* [0, 100), what ZeroCrossingCounter counts (CountZeroCrossings) is at least
\* what EndPositionCounter counts (1 when the rotation ends on 0, else 0).
C29_CrossingAtLeastEnding ==
    (fout.done /\ fin.d >= 1) => fout.crossings >= fout.ends

\* C29 witness: a rotation of distance 1 or more has ended on 0, and was
\* counted once by each counter.
C29_EndedOnZeroCountedOnce ==
    /\ fout.done
    /\ fin.d >= 1
    /\ fin.dir = Left
    /\ fin.p # 0
    /\ fout.ends = 1
    /\ fout.crossings = 1

\* C29, the totals: while the Solver reads a file whose distances are all 1
\* or more, the crosses-zero count is at least the number of rotations that
\* ended on 0, which is the ends-at-zero count.
C29_TotalAtLeastLandings ==
    (impl = "solver" /\ DistancesAtLeastOne(file)) =>
        /\ part = 2 => count >= landings
        /\ part = 1 => count = landings

\* C30: for every position p in [0, 100) and distance d >= 0, turning left by
\* d and then right by d, or right by d and then left by d, ends on p.
C30_RoundTrip ==
    (fout.done /\ fin.d >= 0) =>
        /\ fout.leftRight = fin.p
        /\ fout.rightLeft = fin.p

\* C30 witness: both round trips, of more than a full turn and wrapping past
\* 0 in each direction, have ended where they began.
C30_WrappedBothWays ==
    /\ fout.done
    /\ fin.d > DialSize
    /\ fin.p \notin {0, StartPosition}
    /\ fin.d % DialSize > fin.p
    /\ fin.d % DialSize > DialSize - fin.p
    /\ fout.leftRight = fin.p
    /\ fout.rightLeft = fin.p

=============================================================================
